---------------------------- MODULE Spec2Model ----------------------------
(***************************************************************************)
(* Battle engine of pokemon-ML: Pokemon / Team / Battle of                 *)
(* src/pokemon_battle.py.  Python floats are modelled as exact rationals   *)
(* <<numerator, denominator>>; int() truncates them.                       *)
(***************************************************************************)
EXTENDS Integers, Sequences, FiniteSets, TLC

(***************************************************************************)
(* Bounds of the exploration.                                              *)
(***************************************************************************)
\* execute_turn calls explored per single battle (turn_count is unbounded in the code)
MaxTurns == 3
\* execute_turn calls explored per double battle, where a turn takes four actions
MaxDoubleTurns == 1

(***************************************************************************)
(* Program constants.                                                      *)
(***************************************************************************)
TeamSize == 6

Sides == {"player", "opponent"}
Other(side) == IF side = "player" THEN "opponent" ELSE "player"
Idx == 0 .. (TeamSize - 1)
BattleModes == {"single", "double"}

(***************************************************************************)
(* Rational arithmetic for the float expressions of the source.            *)
(***************************************************************************)
RECURSIVE Gcd(_, _)
Gcd(a, b) == IF b = 0 THEN a ELSE Gcd(b, a % b)

Norm(q) ==
    LET g == Gcd(q[1], q[2])
    IN  IF g = 0 THEN q ELSE <<q[1] \div g, q[2] \div g>>

RMul(p, q) == Norm(<<p[1] * q[1], p[2] * q[2]>>)
RDiv(p, q) == Norm(<<p[1] * q[2], p[2] * q[1]>>)
RAdd(p, q) == Norm(<<p[1] * q[2] + q[1] * p[2], p[2] * q[2]>>)
RSub(p, q) == Norm(<<p[1] * q[2] - q[1] * p[2], p[2] * q[2]>>)
RLess(p, q) == p[1] * q[2] < q[1] * p[2]
RLeq(p, q) == p[1] * q[2] <= q[1] * p[2]
RMax(p, q) == IF RLess(p, q) THEN q ELSE p
RMin(p, q) == IF RLess(q, p) THEN q ELSE p
RInt(n) == <<n, 1>>
\* round(x) in the place of int(x)
TruncRounded(q) == (2 * q[1] + q[2]) \div (2 * q[2])

\* int(x) for x >= 0
Trunc(q) == q[1] \div q[2]

(***************************************************************************)
(* Game data: MOVES_DATA, TYPES_DATA and the two teams' Pokemon.           *)
(***************************************************************************)
MoveIds == {1, 2}

MOVES_DATA ==
    <<[name |-> "strike", type |-> "normal", power |-> 120, accuracy |-> 100,
       damage_class |-> "physical"],
      [name |-> "beam", type |-> "fire", power |-> 120, accuracy |-> 70,
       damage_class |-> "special"]>>

\* multipliers of the type chart
TYPES_DATA ==
    [a \in {"normal", "fire"} |->
      [d \in {"normal", "fire", "grass", "bug", "ghost"} |->
         IF a = "fire" /\ d \in {"grass", "bug"} THEN <<2, 1>>
         ELSE IF a = "fire" /\ d = "fire" THEN <<1, 2>>
         ELSE IF a = "normal" /\ d = "ghost" THEN <<0, 1>>
         ELSE <<1, 1>>]]

\* Pokemon.from_data: hp computed from the base stat
MaxHp(base_hp, level) ==
    RAdd(Norm(<<base_hp * 2 * level, 100>>), RInt(level + 10))

\* One Pokemon(...) as the dataclass constructor takes it; speed_stage is the
\* "speed" entry of the stat_stages it is constructed with.
Mon(types, moves, speed, speed_stage) ==
    [level |-> 50, types |-> types, moves |-> moves,
     hp |-> MaxHp(35, 50),
     attack |-> 100, defense |-> 50,
     special_attack |-> 100, special_defense |-> 50,
     speed |-> speed, speed_stage |-> speed_stage]

POKEMON ==
    [side \in Sides |->
       IF side = "player"
       THEN [i \in Idx |->
               CASE i = 0 -> Mon(<<"normal">>, <<1, 2>>, 60, -1)
                 [] i = 1 -> Mon(<<"normal", "grass">>, <<2>>, 50, 0)
                 [] i = 2 -> Mon(<<"grass">>, <<1>>, 70, 0)
                 [] OTHER -> Mon(<<"normal">>, <<1, 2>>, 40, 0)]
       ELSE [i \in Idx |->
               CASE i = 0 -> Mon(<<"normal">>, <<2, 1>>, 50, 0)
                 [] i = 1 -> Mon(<<"normal">>, <<1>>, 60, 1)
                 [] i = 2 -> Mon(<<"normal">>, <<2>>, 60, 0)
                 [] i = 5 -> Mon(<<"fire">>, <<1, 2>>, 70, 0)
                 [] OTHER -> Mon(<<"fire">>, <<1, 2>>, 40, 0)]]

\* Battle.__init__ takes two Team objects as they are: fresh teams (all six
\* Pokemon standing, current_hp = hp) or teams already worn by play.  Of each
\* team the Pokemon with the lowest indices are standing, the others have
\* fainted (current_hp = 0); the number standing is drawn from StandingCounts.
StandingCounts == {2, TeamSize}

StatKeys == {"attack", "defense", "special_attack", "special_defense",
             "speed", "accuracy", "evasion"}

VARIABLES
    battle_mode,             \* Battle.battle_mode
    current_hp,              \* current_hp[side][i]: Pokemon.current_hp
    stat_stages,             \* stat_stages[side][i][key]: Pokemon.stat_stages
    active_pokemon_indices,  \* active_pokemon_indices[side]: sequence of roster indices
    turn_count,              \* Battle.turn_count
    last,                    \* what the last call did (history)
    calls,                   \* number of execute_turn calls made (history)
    probe                    \* arguments and result of a call of a pure method

vars == <<battle_mode, current_hp, stat_stages, active_pokemon_indices,
          turn_count, last, calls, probe>>

(***************************************************************************)
(* Pokemon.                                                                *)
(***************************************************************************)
IsFainted(hp) == RLeq(hp, RInt(0))

\* take_damage without the clamp at 0
TakeDamageUnclamped(hp, damage) == RSub(hp, RInt(damage))

\* take_damage keeping the size of the difference
TakeDamageAbs(hp, damage) ==
    LET d == RSub(hp, RInt(damage))
    IN  IF RLess(d, RInt(0)) THEN RSub(RInt(0), d) ELSE d

TakeDamage(hp, damage) == RMax(RInt(0), RSub(hp, RInt(damage)))

Heal(hp, max_hp, amount) == RMin(max_hp, RAdd(hp, RInt(amount)))

(***************************************************************************)
(* Battle.apply_stat_stages and Battle.calculate_damage.                   *)
(***************************************************************************)
\* apply_stat_stages raising the stat at a negative stage
ApplyStatStagesInverted(stat, stage) ==
    IF stage > 0 THEN RDiv(RMul(stat, RInt(2 + stage)), RInt(2))
    ELSE IF stage < 0 THEN RDiv(RMul(stat, RInt(2 - stage)), RInt(2))
    ELSE stat

ApplyStatStages(stat, stage) ==
    IF stage > 0 THEN RDiv(RMul(stat, RInt(2 + stage)), RInt(2))
    ELSE IF stage < 0 THEN RDiv(RMul(stat, RInt(2)), RInt(2 - stage))
    ELSE stat

\* the type loop stopping after the defender's first type
TypeProductFirst(damage, move_type, types) ==
    IF types = <<>> THEN damage
    ELSE RMul(damage, TYPES_DATA[move_type][Head(types)])

RECURSIVE TypeProduct(_, _, _)
TypeProduct(damage, move_type, types) ==
    IF types = <<>> THEN damage
    ELSE TypeProduct(RMul(damage, TYPES_DATA[move_type][Head(types)]),
                     move_type, Tail(types))

\* calculate_damage reading attack and defense whatever the damage class
CalculateDamagePhysicalStats(attacker, defender, move, roll) ==
    LET level == attacker.data.level
        attack == ApplyStatStages(RInt(attacker.data.attack),
                                  attacker.stat_stages["attack"])
        defense == ApplyStatStages(RInt(defender.data.defense),
                                   defender.stat_stages["defense"])
        damage == RAdd(RDiv(RMul(RMul(RAdd(<<2 * level, 5>>, RInt(2)),
                                      RInt(move.power)),
                                 RDiv(attack, defense)),
                            RInt(50)),
                       RInt(2))
        rolled == RMul(damage, roll)
    IN  Trunc(TypeProduct(rolled, move.type, defender.data.types))

\* attacker, defender: [data |-> the Pokemon's fields, stat_stages |-> its stages];
\* roll: the random.uniform(0.85, 1.00) draw as a rational
CalculateDamage(attacker, defender, move, roll) ==
    LET level == attacker.data.level
        physical == move.damage_class = "physical"
        attack0 == RInt(IF physical THEN attacker.data.attack
                        ELSE attacker.data.special_attack)
        defense0 == RInt(IF physical THEN defender.data.defense
                         ELSE defender.data.special_defense)
        attack == IF physical
                  THEN ApplyStatStages(attack0, attacker.stat_stages["attack"])
                  ELSE IF move.damage_class = "special"
                  THEN ApplyStatStages(attack0, attacker.stat_stages["special_attack"])
                  ELSE attack0
        defense == IF physical
                   THEN ApplyStatStages(defense0, defender.stat_stages["defense"])
                   ELSE IF move.damage_class = "special"
                   THEN ApplyStatStages(defense0, defender.stat_stages["special_defense"])
                   ELSE defense0
        damage == RAdd(RDiv(RMul(RMul(RAdd(<<2 * level, 5>>, RInt(2)),
                                      RInt(move.power)),
                                 RDiv(attack, defense)),
                            RInt(50)),
                       RInt(2))
        rolled == RMul(damage, roll)
    IN  Trunc(TypeProduct(rolled, move.type, defender.data.types))

(***************************************************************************)
(* Team.                                                                   *)
(***************************************************************************)
Range(seq) == {seq[k] : k \in DOMAIN seq}

\* Team.__init__: the indices active after construction
InitialActive(mode) == IF mode = "single" THEN <<0>> ELSE <<0, 1>>

\* no Team object
NoTeam == [pokemon |-> <<>>, battle_mode |-> "none", active_pokemon_indices |-> <<>>]

\* Team.__init__ without the test of len(pokemon_list)
TeamInitUnchecked(pokemon_list, mode) ==
    [raised |-> "none",
     team |-> [pokemon |-> pokemon_list, battle_mode |-> mode,
               active_pokemon_indices |-> InitialActive(mode)]]

\* Team.__init__; pokemon_list: the sequence of the Pokemon's current_hp
TeamInit(pokemon_list, mode) ==
    IF Len(pokemon_list) # TeamSize
    THEN [raised |-> "ValueError", team |-> NoTeam]
    ELSE [raised |-> "none",
          team |-> [pokemon |-> pokemon_list, battle_mode |-> mode,
                    active_pokemon_indices |-> InitialActive(mode)]]

\* Battle.__init__ without the test of the teams' battle modes
BattleInitUnchecked(player_team, opponent_team) ==
    [raised |-> "none", battle_mode |-> player_team.battle_mode]

\* Battle.__init__: the exception raised and the battle's mode
BattleInit(player_team, opponent_team) ==
    IF player_team.battle_mode # opponent_team.battle_mode
    THEN [raised |-> "ValueError", battle_mode |-> "none"]
    ELSE [raised |-> "none", battle_mode |-> player_team.battle_mode]

\* switch_pokemon without the test 'new_index not in self.active_pokemon_indices'
SwitchPokemonAnyTarget(mode, team, position, new_index) ==
    IF /\ 0 <= new_index
       /\ new_index < TeamSize
       /\ position \in {0, 1}
    THEN IF ~IsFainted(team.hp[new_index])
         THEN [ok |-> TRUE,
               active |-> IF mode = "single"
                          THEN [team.active EXCEPT ![1] = new_index]
                          ELSE [team.active EXCEPT ![position + 1] = new_index]]
         ELSE [ok |-> FALSE, active |-> team.active]
    ELSE [ok |-> FALSE, active |-> team.active]

\* switch_pokemon without the test 'not self.pokemon[new_index].is_fainted()'
SwitchPokemonToFainted(mode, team, position, new_index) ==
    IF /\ 0 <= new_index
       /\ new_index < TeamSize
       /\ position \in {0, 1}
    THEN IF new_index \notin Range(team.active)
         THEN [ok |-> TRUE,
               active |-> IF mode = "single"
                          THEN [team.active EXCEPT ![1] = new_index]
                          ELSE [team.active EXCEPT ![position + 1] = new_index]]
         ELSE [ok |-> FALSE, active |-> team.active]
    ELSE [ok |-> FALSE, active |-> team.active]

\* team: [hp |-> current_hp of the six Pokemon, active |-> active indices].
\* The result is the team's active indices after the call and the returned flag.
SwitchPokemon(mode, team, position, new_index) ==
    IF /\ 0 <= new_index
       /\ new_index < TeamSize
       /\ position \in {0, 1}
    THEN IF /\ ~IsFainted(team.hp[new_index])
            /\ new_index \notin Range(team.active)
         THEN [ok |-> TRUE,
               active |-> IF mode = "single"
                          THEN [team.active EXCEPT ![1] = new_index]
                          ELSE [team.active EXCEPT ![position + 1] = new_index]]
         ELSE [ok |-> FALSE, active |-> team.active]
    ELSE [ok |-> FALSE, active |-> team.active]

\* get_available_switches without the test 'not p.is_fainted()'
GetAvailableSwitchesFainted(team) == {i \in Idx : i \notin Range(team.active)}

GetAvailableSwitches(team) ==
    {i \in Idx : ~IsFainted(team.hp[i]) /\ i \notin Range(team.active)}

\* is_defeated with any() in the place of all()
IsDefeatedAny(hp) == \E i \in Idx : IsFainted(hp[i])

IsDefeated(hp) == \A i \in Idx : IsFainted(hp[i])

(***************************************************************************)
(* Actions submitted to execute_turn: ('move', move, target_position) and  *)
(* ('switch', new_index).  In single mode the target position is unused.   *)
(***************************************************************************)
\* index TeamSize is out of range
SwitchActions == {<<"switch", k, 0>> : k \in 0 .. TeamSize}
\* single battle: any move of the game, also one the Pokemon does not have
SingleActions == {<<"move", m, 0>> : m \in MoveIds} \union SwitchActions
\* double battle: the first move of the slot's Pokemon (as main() and the GUI
\* submit it) at either target
DoubleActions(mon) ==
    {<<"move", mon.moves[1], t>> : t \in {0, 1}} \union SwitchActions

\* the draws of one execute_move call: random.randint(1, 100) and
\* random.uniform(0.85, 1.00)
Draws == {[accuracy |-> 100, damage |-> <<17, 20>>],
          [accuracy |-> 1, damage |-> <<1, 1>>]}

(***************************************************************************)
(* History of one execute_turn call, kept for the properties: it records   *)
(* what the call did and is read by no operation.                          *)
(***************************************************************************)
NoHistory ==
    [illegal |-> FALSE,          \* a submitted action was illegal on entry
     fainted_actor |-> FALSE,    \* a move was executed by a fainted Pokemon
     stale_actor |-> FALSE,      \* ... by one that had fainted before the turn, its team not defeated
     overkill |-> FALSE,         \* a hit dealt more damage than its target had health
     struck_fainted |-> FALSE,   \* a hit landed on a Pokemon that had already fainted
     struck_killed |-> FALSE,    \* a move was executed on a target that fainted earlier in the turn
     skipped_killed |-> FALSE,   \* a move was skipped: its target fainted earlier in the turn
     misordered |-> FALSE,       \* two moves ran against the order of scaled speed
     dropped_switch |-> FALSE,   \* a switch that was legal on entry did not take effect
     foreign_hit |-> FALSE,      \* a move its user does not have dealt damage
     only_switches |-> FALSE,    \* every action submitted to the call was a switch
     switch |-> <<>>,            \* a direct switch_pokemon call: <<side, new_index, returned value>>
     raised |-> "none",          \* the exception the call raised
     log |-> {}]                 \* kinds of messages printed

\* the Pokemon object: its data and its stat stages
PokemonAt(side, i) ==
    [data |-> POKEMON[side][i], stat_stages |-> stat_stages[side][i]]

ScaledSpeed(side, i) ==
    ApplyStatStages(RInt(POKEMON[side][i].speed), stat_stages[side][i]["speed"])

\* submission order: player side before opponent side, slot 0 before slot 1
Rank(side, position) == (IF side = "player" THEN 0 ELSE 2) + position

LegalAction(hp, active, side, position, action) ==
    LET actor == active[side][position + 1]
    IN  IF action[1] = "move"
        THEN /\ action[2] \in Range(POKEMON[side][actor].moves)
             /\ ~IsFainted(hp[side][actor])
        ELSE /\ action[2] \in Idx
             /\ ~IsFainted(hp[side][action[2]])
             /\ action[2] \notin Range(active[side])

(***************************************************************************)
(* Battle.execute_move.  st is the turn in progress:                       *)
(*   hp     current_hp of every Pokemon                                    *)
(*   killed the Pokemon that fainted during this turn                      *)
(*   prev   <<scaled speed, rank>> of the last Pokemon that moved          *)
(*   h      the history record                                            *)
(* att and def are <<side, roster index>>.                                 *)
(***************************************************************************)
Observe(st, att, position, def) ==
    LET speed == ScaledSpeed(att[1], att[2])
        rank == Rank(att[1], position)
        late == /\ st.prev # <<>>
                /\ \/ RLess(st.prev[1], speed)
                   \/ st.prev[1] = speed /\ st.prev[2] > rank
    IN  [st EXCEPT
           !.prev = <<speed, rank>>,
           !.h.fainted_actor = @ \/ IsFainted(st.hp[att[1]][att[2]]),
           !.h.stale_actor = @ \/ /\ IsFainted(current_hp[att[1]][att[2]])
                                  /\ ~IsDefeated(current_hp[att[1]]),
           !.h.struck_killed = @ \/ def \in st.killed,
           !.h.misordered = @ \/ late]

\* execute_move missing when the roll equals the accuracy
ExecuteMoveMissAtAccuracy(st, att, def, move_id, draw) ==
    LET move == MOVES_DATA[move_id]
        before == st.hp[def[1]][def[2]]
    IN  IF draw.accuracy >= move.accuracy
        THEN [st EXCEPT !.h.log = @ \union {"missed"}]
        ELSE LET damage == CalculateDamage(PokemonAt(att[1], att[2]),
                                           PokemonAt(def[1], def[2]),
                                           move, draw.damage)
                 after == TakeDamage(before, damage)
             IN  [st EXCEPT
                    !.hp[def[1]][def[2]] = after,
                    !.h.overkill = @ \/ (~IsFainted(before) /\ RLess(before, RInt(damage))),
                    !.h.struck_fainted = @ \/ IsFainted(before),
                    !.h.foreign_hit = @ \/ /\ move_id \notin Range(POKEMON[att[1]][att[2]].moves)
                                            /\ damage > 0,
                    !.killed = IF ~IsFainted(before) /\ IsFainted(after)
                               THEN @ \union {def} ELSE @,
                    !.h.log = @ \union {"used"} \union
                              (IF IsFainted(after) THEN {"fainted"} ELSE {})]

ExecuteMove(st, att, def, move_id, draw) ==
    LET move == MOVES_DATA[move_id]
        before == st.hp[def[1]][def[2]]
    IN  IF draw.accuracy > move.accuracy
        THEN [st EXCEPT !.h.log = @ \union {"missed"}]
        ELSE LET damage == CalculateDamage(PokemonAt(att[1], att[2]),
                                           PokemonAt(def[1], def[2]),
                                           move, draw.damage)
                 after == TakeDamage(before, damage)
             IN  [st EXCEPT
                    !.hp[def[1]][def[2]] = after,
                    !.h.overkill = @ \/ (~IsFainted(before) /\ RLess(before, RInt(damage))),
                    !.h.struck_fainted = @ \/ IsFainted(before),
                    !.h.foreign_hit = @ \/ /\ move_id \notin Range(POKEMON[att[1]][att[2]].moves)
                                            /\ damage > 0,
                    !.killed = IF ~IsFainted(before) /\ IsFainted(after)
                               THEN @ \union {def} ELSE @,
                    !.h.log = @ \union {"used"} \union
                              (IF IsFainted(after) THEN {"fainted"} ELSE {})]

(***************************************************************************)
(* Battle.execute_turn, single battle.  player_action, opponent_action:    *)
(* one action each; rnd[<<side, position>>]: the draws of that slot's move. *)
(***************************************************************************)
TeamOf(hp, active, side) == [hp |-> hp[side], active |-> active[side]]

SwitchSingle(hp, active, side, action) ==
    IF action[1] = "switch"
    THEN SwitchPokemon("single", TeamOf(hp, active, side), 0, action[2]).active
    ELSE active[side]

ExecuteTurnSingle(hp, active, player_action, opponent_action, rnd) ==
    LET active1 == [active EXCEPT
                      !["player"] = SwitchSingle(hp, active, "player", player_action)]
        active2 == [active1 EXCEPT
                      !["opponent"] = SwitchSingle(hp, active1, "opponent", opponent_action)]
        action == [side \in Sides |->
                     IF side = "player" THEN player_action ELSE opponent_action]
        mon == [side \in Sides |-> <<side, active2[side][1]>>]
        log0 == {"switched" : side \in {x \in Sides : action[x][1] = "switch"}}
        st0 == [hp |-> hp, killed |-> {}, prev |-> <<>>,
                h |-> [NoHistory EXCEPT !.log = log0]]
        player_speed == POKEMON["player"][mon["player"][2]].speed
        opponent_speed == POKEMON["opponent"][mon["opponent"][2]].speed
        first == IF player_speed >= opponent_speed THEN "player" ELSE "opponent"
        second == Other(first)
        st1 == IF action[first][1] = "move"
               THEN ExecuteMove(Observe(st0, mon[first], 0, mon[second]),
                                mon[first], mon[second], action[first][2], rnd[<<first, 0>>])
               ELSE st0
        st2 == IF /\ ~IsFainted(st1.hp[second][mon[second][2]])
                  /\ action[second][1] = "move"
               THEN ExecuteMove(Observe(st1, mon[second], 0, mon[first]),
                                mon[second], mon[first], action[second][2], rnd[<<second, 0>>])
               ELSE st1
    IN  IF player_action[1] = "switch" /\ opponent_action[1] = "switch"
        THEN [hp |-> hp, active |-> active2, h |-> st0.h]
        ELSE [hp |-> st2.hp, active |-> active2, h |-> st2.h]

(***************************************************************************)
(* Battle.execute_turn, double battle.  player_actions, opponent_actions:  *)
(* two actions each (slot 0, slot 1).                                      *)
(***************************************************************************)
SwitchDouble(hp, active, side, actions) ==
    LET a0 == IF actions[1][1] = "switch"
              THEN SwitchPokemon("double", TeamOf(hp, active, side), 0,
                                 actions[1][2]).active
              ELSE active[side]
        a1 == IF actions[2][1] = "switch"
              THEN SwitchPokemon("double", [hp |-> hp[side], active |-> a0], 1,
                                 actions[2][2]).active
              ELSE a0
    IN  a1

\* list.sort(key=speed, reverse=True): a stable sort, equal speeds keep their order
RECURSIVE InsertBySpeed(_, _, _)
InsertBySpeed(sorted, e, speed) ==
    IF sorted = <<>> THEN <<e>>
    ELSE IF speed[Head(sorted)] < speed[e]
         THEN <<e>> \o sorted
         ELSE <<Head(sorted)>> \o InsertBySpeed(Tail(sorted), e, speed)

RECURSIVE SortBySpeed(_, _)
SortBySpeed(entries, speed) ==
    IF entries = <<>> THEN <<>>
    ELSE InsertBySpeed(SortBySpeed(SubSeq(entries, 1, Len(entries) - 1), speed),
                       entries[Len(entries)], speed)

\* the loop over the sorted list, from its k-th entry on
RECURSIVE RunMoves(_, _, _, _, _, _)
RunMoves(st, order, k, action, active, rnd) ==
    IF k > Len(order) THEN st
    ELSE LET side == order[k][1]
             position == order[k][2]
             act == action[side][position + 1]
             att == <<side, active[side][position + 1]>>
             target == <<Other(side), active[Other(side)][act[3] + 1]>>
             next == IF act[1] # "move" THEN st
                     ELSE IF ~IsFainted(st.hp[target[1]][target[2]])
                     THEN ExecuteMove(Observe(st, att, position, target),
                                      att, target, act[2], rnd[<<side, position>>])
                     ELSE [st EXCEPT !.h.skipped_killed = @ \/ target \in st.killed]
         IN  RunMoves(next, order, k + 1, action, active, rnd)

ExecuteTurnDouble(hp, active, player_actions, opponent_actions, rnd) ==
    LET active1 == [active EXCEPT
                      !["player"] = SwitchDouble(hp, active, "player", player_actions)]
        active2 == [active1 EXCEPT
                      !["opponent"] = SwitchDouble(hp, active1, "opponent",
                                                   opponent_actions)]
        action == [side \in Sides |->
                     IF side = "player" THEN player_actions ELSE opponent_actions]
        log0 == {"switched" : e \in {x \in Sides \X {1, 2} :
                                        action[x[1]][x[2]][1] = "switch"}}
        st0 == [hp |-> hp, killed |-> {}, prev |-> <<>>,
                h |-> [NoHistory EXCEPT !.log = log0]]
        active_pokemon == << <<"player", 0>>, <<"player", 1>>,
                             <<"opponent", 0>>, <<"opponent", 1>> >>
        speed == [e \in Range(active_pokemon) |->
                    POKEMON[e[1]][active2[e[1]][e[2] + 1]].speed]
        order == SortBySpeed(active_pokemon, speed)
        st == RunMoves(st0, order, 1, action, active2, rnd)
    IN  [hp |-> st.hp, active |-> active2, h |-> st.h]

(***************************************************************************)
(* Battle.is_battle_over, Battle.get_winner.                               *)
(***************************************************************************)
IsBattleOver == IsDefeated(current_hp["player"]) \/ IsDefeated(current_hp["opponent"])

\* "none", or the side whose team is returned
GetWinner ==
    IF ~IsBattleOver THEN "none"
    ELSE IF IsDefeated(current_hp["player"]) THEN "opponent" ELSE "player"

(***************************************************************************)
(* Adversary (src/pokemon_adversary.py).  side is the Adversary's team,    *)
(* Other(side) the opponent_team argument.  A random choice is the set of  *)
(* the values it can return.                                               *)
(***************************************************************************)
GetTypeEffectiveness(attack_type, defender_type) == TYPES_DATA[attack_type][defender_type]

\* pokemon: the Pokemon's fields
HasTypeAdvantage(pokemon, opponent_types) ==
    \E k \in DOMAIN pokemon.moves : \E j \in DOMAIN opponent_types :
       RLess(RInt(1), GetTypeEffectiveness(MOVES_DATA[pokemon.moves[k]].type,
                                           opponent_types[j]))

\* current_hp / hp < 0.3
LowHealth(hp, side, i) == RLess(RDiv(hp[side][i], POKEMON[side][i].hp), <<3, 10>>)

\* The Pokemon of a team carry different names, so in a single battle
\* 'pokemon != current_pokemon' holds of every Pokemon but the active one; in a
\* double battle current_pokemon is a list and the test holds of all.
ShouldSwitch(mode, hp, active, side) ==
    LET current == active[side]
        opponent == active[Other(side)]
        low == IF mode = "single" THEN LowHealth(hp, side, current[1])
               ELSE \E k \in DOMAIN current : LowHealth(hp, side, current[k])
        opponent_types ==
            IF mode = "single" THEN POKEMON[Other(side)][opponent[1]].types
            ELSE POKEMON[Other(side)][opponent[1]].types
                    \o POKEMON[Other(side)][opponent[2]].types
        others == IF mode = "single" THEN Idx \ {current[1]} ELSE Idx
    IN  \/ low
        \/ \E i \in others :
              /\ ~IsFainted(hp[side][i])
              /\ HasTypeAdvantage(POKEMON[side][i], opponent_types)

\* moves: a sequence of Move records; estimated_damage of the k-th
EstimatedDamage(moves, defender_types, k) ==
    IF moves[k].power # 0
    THEN TypeProduct(RInt(moves[k].power), moves[k].type, defender_types)
    ELSE RInt(0)

\* the positions in moves of the moves _choose_best_move can return: the first
\* move of the highest estimate if that is above 0, else any (random.choice)
ChooseBestMove(moves, defender_types) ==
    LET best == {k \in DOMAIN moves :
                   /\ RLess(RInt(0), EstimatedDamage(moves, defender_types, k))
                   /\ \A j \in DOMAIN moves :
                         /\ RLeq(EstimatedDamage(moves, defender_types, j),
                                 EstimatedDamage(moves, defender_types, k))
                         /\ j < k => RLess(EstimatedDamage(moves, defender_types, j),
                                           EstimatedDamage(moves, defender_types, k))}
    IN  IF best # {} THEN best ELSE DOMAIN moves

MoveRecords(ids) == [k \in DOMAIN ids |-> MOVES_DATA[ids[k]]]

\* the actions _choose_single_action can return
ChooseSingleAction(hp, active, side) ==
    LET available_switches == GetAvailableSwitches(TeamOf(hp, active, side))
        current_pokemon == POKEMON[side][active[side][1]]
        defender == POKEMON[Other(side)][active[Other(side)][1]]
    IN  IF ShouldSwitch("single", hp, active, side) /\ available_switches # {}
        THEN {<<"switch", i, 0>> : i \in available_switches}
        ELSE {<<"move", current_pokemon.moves[k], 0>> :
                 k \in ChooseBestMove(MoveRecords(current_pokemon.moves), defender.types)}

\* the actions _choose_double_actions can return for the slot at position
ChooseSlotAction(hp, active, side, position) ==
    LET available_switches == GetAvailableSwitches(TeamOf(hp, active, side))
        pokemon == POKEMON[side][active[side][position + 1]]
        defender == POKEMON[Other(side)][active[Other(side)][1]]
    IN  IF ShouldSwitch("double", hp, active, side) /\ available_switches # {}
        THEN {<<"switch", i, 0>> : i \in available_switches}
        ELSE {<<"move", pokemon.moves[k], target>> :
                 k \in ChooseBestMove(MoveRecords(pokemon.moves), defender.types),
                 target \in {0, 1}}

\* the values choose_action can return: sequences of one or two actions
ChooseAction(mode, hp, active, side) ==
    IF mode = "single"
    THEN {<<a>> : a \in ChooseSingleAction(hp, active, side)}
    ELSE ChooseSlotAction(hp, active, side, 0) \X ChooseSlotAction(hp, active, side, 1)

(***************************************************************************)
(* The state machine.                                                      *)
(***************************************************************************)
\* no pure method has been called
NoProbe == [method |-> "none"]

Init ==
    /\ battle_mode \in BattleModes
    /\ \E standing \in [Sides -> StandingCounts] :
          current_hp = [side \in Sides |-> [i \in Idx |->
                          IF i < standing[side] THEN POKEMON[side][i].hp ELSE RInt(0)]]
    /\ stat_stages = [side \in Sides |-> [i \in Idx |->
                        [key \in StatKeys |->
                           IF key = "speed" THEN POKEMON[side][i].speed_stage ELSE 0]]]
    /\ active_pokemon_indices = [side \in Sides |-> InitialActive(battle_mode)]
    /\ turn_count = 0
    /\ last = NoHistory
    /\ calls = 0
    /\ probe = NoProbe

\* what the properties need to know of the call, from its arguments and the
\* state on entry
Entry(h, active2, actions) ==
    [h EXCEPT
       !.illegal =
          \E side \in Sides : \E k \in DOMAIN actions[side] :
             ~LegalAction(current_hp, active_pokemon_indices, side, k - 1,
                          actions[side][k]),
       !.only_switches =
          \A side \in Sides : \A k \in DOMAIN actions[side] :
             actions[side][k][1] = "switch",
       !.dropped_switch =
          \E side \in Sides : \E k \in DOMAIN actions[side] :
             /\ actions[side][k][1] = "switch"
             /\ LegalAction(current_hp, active_pokemon_indices, side, k - 1,
                            actions[side][k])
             /\ active2[side][k] # actions[side][k][2]]

\* the slots <<side, position>> that submitted a move
Movers(actions) ==
    {e \in Sides \X {0, 1} :
        /\ e[2] + 1 \in DOMAIN actions[e[1]]
        /\ actions[e[1]][e[2] + 1][1] = "move"}

\* execute_turn leaving out 'self.turn_count += 1'
DoneUncounted(r, actions) ==
    /\ current_hp' = r.hp
    /\ active_pokemon_indices' = r.active
    /\ turn_count' = turn_count
    /\ last' = Entry(r.h, r.active, actions)
    /\ calls' = calls + 1
    /\ UNCHANGED <<battle_mode, stat_stages, probe>>

\* execute_turn counting the turn twice
DoneCountedTwice(r, actions) ==
    /\ current_hp' = r.hp
    /\ active_pokemon_indices' = r.active
    /\ turn_count' = turn_count + 2
    /\ last' = Entry(r.h, r.active, actions)
    /\ calls' = calls + 1
    /\ UNCHANGED <<battle_mode, stat_stages, probe>>

Done(r, actions) ==
    /\ current_hp' = r.hp
    /\ active_pokemon_indices' = r.active
    /\ turn_count' = turn_count + 1
    /\ last' = Entry(r.h, r.active, actions)
    /\ calls' = calls + 1
    /\ UNCHANGED <<battle_mode, stat_stages, probe>>

SlotActions(side, position) ==
    DoubleActions(POKEMON[side][active_pokemon_indices[side][position + 1]])

ExecuteTurnInSingle ==
    /\ battle_mode = "single"
    /\ turn_count < MaxTurns
    /\ \E player_action \in SingleActions, opponent_action \in SingleActions :
          LET actions == [side \in Sides |-> IF side = "player" THEN <<player_action>>
                                             ELSE <<opponent_action>>]
          IN  \E rnd \in [Movers(actions) -> Draws] :
                 Done(ExecuteTurnSingle(current_hp, active_pokemon_indices,
                                        player_action, opponent_action, rnd),
                      actions)

ExecuteTurnInDouble ==
    /\ battle_mode = "double"
    /\ turn_count < MaxDoubleTurns
    /\ \E player_actions \in SlotActions("player", 0) \X SlotActions("player", 1),
          opponent_actions \in SlotActions("opponent", 0) \X SlotActions("opponent", 1) :
          LET actions == [side \in Sides |-> IF side = "player" THEN player_actions
                                             ELSE opponent_actions]
          IN  \E rnd \in [Movers(actions) -> Draws] :
                 Done(ExecuteTurnDouble(current_hp, active_pokemon_indices,
                                        player_actions, opponent_actions, rnd),
                      actions)

Next == ExecuteTurnInSingle \/ ExecuteTurnInDouble

Spec == Init /\ [][Next]_vars

(***************************************************************************)
(* Team on its own: any sequence of direct Team.switch_pokemon calls on    *)
(* the teams of a battle, legal or not.                                    *)
(***************************************************************************)
\* new_index arguments: the roster indices, -1 and TeamSize (out of range)
SwitchIndices == -1 .. TeamSize
\* position arguments: 0, 1 and one that is not a position
SwitchPositions == {0, 1, 2}

\* switch_pokemon clearing the stat stages of the Pokemon it brings in
SwitchPokemonCallResetting ==
    /\ \E side \in Sides, position \in SwitchPositions, new_index \in SwitchIndices :
          LET r == SwitchPokemon(battle_mode,
                                 TeamOf(current_hp, active_pokemon_indices, side),
                                 position, new_index)
          IN  /\ active_pokemon_indices' =
                    [active_pokemon_indices EXCEPT ![side] = r.active]
              /\ stat_stages' =
                    IF r.ok
                    THEN [stat_stages EXCEPT ![side][new_index] = [key \in StatKeys |-> 0]]
                    ELSE stat_stages
              /\ last' = [NoHistory EXCEPT !.switch = <<side, new_index, r.ok>>]
    /\ UNCHANGED <<battle_mode, current_hp, turn_count, calls, probe>>

SwitchPokemonCall ==
    /\ \E side \in Sides, position \in SwitchPositions, new_index \in SwitchIndices :
          LET r == SwitchPokemon(battle_mode,
                                 TeamOf(current_hp, active_pokemon_indices, side),
                                 position, new_index)
          IN  /\ active_pokemon_indices' =
                    [active_pokemon_indices EXCEPT ![side] = r.active]
              /\ last' = [NoHistory EXCEPT !.switch = <<side, new_index, r.ok>>]
    /\ UNCHANGED <<battle_mode, current_hp, stat_stages, turn_count, calls, probe>>

TeamNext == SwitchPokemonCall

TeamSpec == Init /\ [][TeamNext]_vars

(***************************************************************************)
(* The pure methods on their own: one call of Battle.calculate_damage or   *)
(* Battle.apply_stat_stages with arguments drawn from the sets below; the  *)
(* arguments and the returned value are kept in probe.                     *)
(***************************************************************************)
\* stat stages run from -MaxStage to MaxStage
MaxStage == 6

ProbeTypes == {"normal", "fire", "grass", "bug", "ghost"}
\* Pokemon.types: one or two types
ProbeTypeLists ==
    {<<t>> : t \in ProbeTypes} \union {<<t, u>> : t \in ProbeTypes, u \in ProbeTypes}
ProbeStats ==
    {[attack |-> 100, defense |-> 50, special_attack |-> 60, special_defense |-> 80],
     [attack |-> 45, defense |-> 49, special_attack |-> 65, special_defense |-> 65]}
\* a status move has power 0 (Move.from_data: 'power or 0')
ProbeMoves ==
    {[name |-> "probe", type |-> t, power |-> w, accuracy |-> 100, damage_class |-> c] :
        t \in {"normal", "fire"}, w \in {0, 80, 120},
        c \in {"physical", "special", "status"}}
ProbeRolls == {<<17, 20>>, <<9, 10>>, <<1, 1>>}
ProbeStages == {-1, 0, 2}
ProbeRawStats == {0, 1, 45, 100}

ProbePokemon(stats, types, stage) ==
    [data |-> [level |-> 50, types |-> types,
               attack |-> stats.attack, defense |-> stats.defense,
               special_attack |-> stats.special_attack,
               special_defense |-> stats.special_defense],
     stat_stages |-> [key \in StatKeys |->
                        IF key \in {"attack", "defense", "special_attack",
                                    "special_defense"}
                        THEN stage ELSE 0]]

CalcInit ==
    /\ Init
    /\ battle_mode = "single"
    /\ \A side \in Sides : ~IsFainted(current_hp[side][TeamSize - 1])

CalculateDamageCall ==
    /\ probe = NoProbe
    /\ \E attacker_stats \in ProbeStats, defender_stats \in ProbeStats,
          types \in ProbeTypeLists, move \in ProbeMoves, roll \in ProbeRolls,
          attacker_stage \in ProbeStages, defender_stage \in ProbeStages :
          LET attacker == ProbePokemon(attacker_stats, <<"normal">>, attacker_stage)
              defender == ProbePokemon(defender_stats, types, defender_stage)
          IN  probe' = [method |-> "calculate_damage",
                        attacker |-> attacker, defender |-> defender,
                        move |-> move, roll |-> roll,
                        result |-> CalculateDamage(attacker, defender, move, roll)]
    /\ UNCHANGED <<battle_mode, current_hp, stat_stages, active_pokemon_indices,
                   turn_count, last, calls>>

ApplyStatStagesCall ==
    /\ probe = NoProbe
    /\ \E stat \in ProbeRawStats, stage \in (-MaxStage) .. MaxStage :
          probe' = [method |-> "apply_stat_stages", stat |-> stat, stage |-> stage,
                    result |-> ApplyStatStages(RInt(stat), stage)]
    /\ UNCHANGED <<battle_mode, current_hp, stat_stages, active_pokemon_indices,
                   turn_count, last, calls>>

CalcNext == CalculateDamageCall \/ ApplyStatStagesCall

CalcSpec == CalcInit /\ [][CalcNext]_vars

(***************************************************************************)
(* The Adversary on its own: one choose_action call of the opponent team's *)
(* Adversary (as main() constructs it) in a battle in the course of play.  *)
(***************************************************************************)
AdversarySide == "opponent"

\* current_hp / hp of the Adversary's first four Pokemon; the others have fainted
HealthLevels == {<<0, 1>>, <<1, 5>>, <<1, 1>>}
AdversaryActives == {0, 1, 2, 3}
\* the player's Pokemon that can be active: normal, normal and grass, normal
PlayerActives == {0, 1, 3}

ActiveLists(mode, indices) ==
    IF mode = "single" THEN {<<i>> : i \in indices}
    ELSE {<<i, j>> : i \in indices, j \in indices} \ {<<i, i>> : i \in indices}

AdvInit ==
    /\ battle_mode \in BattleModes
    /\ \E level \in [AdversaryActives -> HealthLevels] :
          current_hp = [side \in Sides |-> [i \in Idx |->
                          IF side # AdversarySide THEN POKEMON[side][i].hp
                          ELSE IF i \in AdversaryActives
                          THEN RMul(level[i], POKEMON[side][i].hp)
                          ELSE RInt(0)]]
    /\ stat_stages = [side \in Sides |-> [i \in Idx |->
                        [key \in StatKeys |->
                           IF key = "speed" THEN POKEMON[side][i].speed_stage ELSE 0]]]
    /\ \E mine \in ActiveLists(battle_mode, AdversaryActives),
          theirs \in ActiveLists(battle_mode, PlayerActives) :
          active_pokemon_indices = [side \in Sides |->
                                      IF side = AdversarySide THEN mine ELSE theirs]
    /\ turn_count = 0
    /\ last = NoHistory
    /\ calls = 0
    /\ probe = NoProbe

\* choose_action writing the switch it returns into the team
ChooseActionCallSwitching ==
    /\ probe = NoProbe
    /\ \E actions \in ChooseAction(battle_mode, current_hp, active_pokemon_indices,
                                    AdversarySide) :
          /\ probe' = [method |-> "choose_action", actions |-> actions]
          /\ active_pokemon_indices' =
                [active_pokemon_indices EXCEPT ![AdversarySide] =
                    IF actions[1][1] = "switch"
                    THEN [@ EXCEPT ![1] = actions[1][2]] ELSE @]
    /\ UNCHANGED <<battle_mode, current_hp, stat_stages, turn_count, last, calls>>

ChooseActionCall ==
    /\ probe = NoProbe
    /\ \E actions \in ChooseAction(battle_mode, current_hp, active_pokemon_indices,
                                    AdversarySide) :
          probe' = [method |-> "choose_action", actions |-> actions]
    /\ UNCHANGED <<battle_mode, current_hp, stat_stages, active_pokemon_indices,
                   turn_count, last, calls>>

AdvNext == ChooseActionCall

AdvSpec == AdvInit /\ [][AdvNext]_vars

(***************************************************************************)
(* Adversary._choose_best_move: one call on its own, with the attacker's   *)
(* moves and the defender's types drawn from the sets below, or one call   *)
(* of choose_action with the Adversary's bench fainted and its active      *)
(* Pokemon at full health, so that choose_action returns moves.            *)
(***************************************************************************)
BestMoveInit ==
    /\ AdvInit
    /\ \A i \in Idx :
          current_hp[AdversarySide][i] =
             IF i \in Range(active_pokemon_indices[AdversarySide])
             THEN POKEMON[AdversarySide][i].hp ELSE RInt(0)

\* a move of power 0 is a status move
BestMoveMoves ==
    {[name |-> "probe", type |-> t, power |-> w, accuracy |-> 100,
      damage_class |-> IF w = 0 THEN "status" ELSE "physical"] :
        t \in {"normal", "fire"}, w \in {0, 80, 120}}
\* Pokemon.moves: up to MaxMoves moves
MaxMoves == 3
BestMoveLists ==
    UNION {[1 .. n -> BestMoveMoves] : n \in 1 .. MaxMoves}

ChooseBestMoveCall ==
    /\ probe = NoProbe
    /\ \E moves \in BestMoveLists, types \in ProbeTypeLists :
          \E k \in ChooseBestMove(moves, types) :
             probe' = [method |-> "_choose_best_move", moves |-> moves,
                       defender_types |-> types, result |-> k]
    /\ UNCHANGED <<battle_mode, current_hp, stat_stages, active_pokemon_indices,
                   turn_count, last, calls>>

BestMoveNext == ChooseBestMoveCall \/ ChooseActionCall

BestMoveSpec == BestMoveInit /\ [][BestMoveNext]_vars

(***************************************************************************)
(* Construction: Team(pokemon_list, battle_mode) for each side, then       *)
(* Battle(player_team, opponent_team), then direct switch_pokemon calls on *)
(* the battle's teams.  Before Battle.__init__ there is no battle:         *)
(* battle_mode is "none" and the teams built so far are kept in probe.     *)
(* An exception ends the program.                                          *)
(***************************************************************************)
MaxListLen == 7
\* pokemon_list arguments: the first n Pokemon of the side, freshly built
PokemonList(side, n) == [k \in 1 .. n |-> POKEMON[side][(k - 1) % TeamSize].hp]

ConstructInit ==
    /\ battle_mode = "none"
    /\ current_hp = [side \in Sides |-> <<>>]
    /\ stat_stages = [side \in Sides |-> <<>>]
    /\ active_pokemon_indices = [side \in Sides |-> <<>>]
    /\ turn_count = 0
    /\ last = NoHistory
    /\ calls = 0
    /\ probe = [method |-> "none", raised |-> "none", side |-> "none",
                pokemon_list |-> <<>>, team |-> [side \in Sides |-> NoTeam]]

TeamInitCall ==
    /\ battle_mode = "none"
    /\ probe.raised = "none"
    /\ \E side \in Sides, n \in 0 .. MaxListLen, mode \in BattleModes :
          /\ probe.team[side] = NoTeam
          /\ LET r == TeamInit(PokemonList(side, n), mode)
             IN  probe' = [method |-> "Team.__init__", raised |-> r.raised,
                           side |-> side, pokemon_list |-> PokemonList(side, n),
                           team |-> [probe.team EXCEPT ![side] = r.team]]
    /\ UNCHANGED <<battle_mode, current_hp, stat_stages, active_pokemon_indices,
                   turn_count, last, calls>>

BattleInitCall ==
    /\ battle_mode = "none"
    /\ probe.raised = "none"
    /\ \A side \in Sides : probe.team[side] # NoTeam
    /\ LET r == BattleInit(probe.team["player"], probe.team["opponent"])
       IN  /\ probe' = [probe EXCEPT !.method = "Battle.__init__",
                                     !.raised = r.raised,
                                     !.side = "none", !.pokemon_list = <<>>]
           /\ IF r.raised # "none"
              THEN UNCHANGED <<battle_mode, current_hp, stat_stages,
                               active_pokemon_indices, turn_count>>
              ELSE /\ battle_mode' = r.battle_mode
                   /\ current_hp' = [side \in Sides |->
                         [i \in 0 .. Len(probe.team[side].pokemon) - 1 |->
                            probe.team[side].pokemon[i + 1]]]
                   /\ stat_stages' = [side \in Sides |->
                         [i \in 0 .. Len(probe.team[side].pokemon) - 1 |->
                            [key \in StatKeys |->
                               IF key = "speed"
                               THEN POKEMON[side][i % TeamSize].speed_stage ELSE 0]]]
                   /\ active_pokemon_indices' =
                         [side \in Sides |-> probe.team[side].active_pokemon_indices]
                   /\ turn_count' = 0
    /\ UNCHANGED <<last, calls>>

ConstructNext ==
    \/ TeamInitCall
    \/ BattleInitCall
    \/ (battle_mode # "none" /\ SwitchPokemonCall)

ConstructSpec == ConstructInit /\ [][ConstructNext]_vars

(***************************************************************************)
(* Battle.execute_move on its own: one direct call on a battle as          *)
(* constructed, with any attacker, defender and move and the draws below.  *)
(***************************************************************************)
\* random.randint(1, 100): the ends of the range and the rolls at and just
\* above the accuracy of beam; random.uniform(0.85, 1.00): its ends
MoveDraws ==
    {[accuracy |-> a, damage |-> d] :
        a \in {1, MOVES_DATA[2].accuracy, MOVES_DATA[2].accuracy + 1, 100},
        d \in {<<17, 20>>, <<1, 1>>}}

ExecuteMoveCall ==
    /\ probe = NoProbe
    /\ \E att \in Sides \X Idx, def \in Sides \X Idx, move_id \in MoveIds,
          draw \in MoveDraws :
          LET st == ExecuteMove([hp |-> current_hp, killed |-> {}, prev |-> <<>>,
                                 h |-> NoHistory],
                                att, def, move_id, draw)
          IN  /\ current_hp' = st.hp
              /\ last' = st.h
              /\ probe' = [method |-> "execute_move", attacker |-> att,
                            defender |-> def, move_id |-> move_id, draw |-> draw,
                            before |-> current_hp]
    /\ UNCHANGED <<battle_mode, stat_stages, active_pokemon_indices, turn_count, calls>>

MoveNext == ExecuteMoveCall

MoveSpec == Init /\ [][MoveNext]_vars

(***************************************************************************)
(* The battle loop of main() in a single battle: two fresh teams; while    *)
(* the battle is not over the player submits the first move of its active  *)
(* Pokemon, the opponent submits what Adversary.choose_action returns, and *)
(* execute_turn runs.                                                      *)
(***************************************************************************)
MaxMainTurns == 8

\* two fresh teams
MainInitAnyMode ==
    /\ Init
    /\ \A side \in Sides : \A i \in Idx : current_hp[side][i] = POKEMON[side][i].hp

MainInit == MainInitAnyMode /\ battle_mode = "single"

\* the action main() submits for the player
PlayerAction ==
    <<"move", POKEMON["player"][active_pokemon_indices["player"][1]].moves[1], 0>>

\* what one pass of the loop body can make of the state: execute_turn's result
\* for each choice of the random draws
LoopResults(opponent_action) ==
    {ExecuteTurnSingle(current_hp, active_pokemon_indices,
                       PlayerAction, opponent_action, rnd) :
        rnd \in [Movers([side \in Sides |->
                            IF side = "player" THEN <<PlayerAction>>
                            ELSE <<opponent_action>>]) -> Draws]}

MainLoop ==
    /\ ~IsBattleOver
    /\ turn_count < MaxMainTurns
    /\ \E opponent_action \in ChooseSingleAction(current_hp, active_pokemon_indices,
                                                  AdversarySide) :
          \E r \in LoopResults(opponent_action) :
             Done(r, [side \in Sides |-> IF side = "player" THEN <<PlayerAction>>
                                         ELSE <<opponent_action>>])

MainNext == MainLoop

MainSpec == MainInit /\ [][MainNext]_vars

(***************************************************************************)
(* PokemonBattleGUI.battle_loop (src/src/gui/pokemon_battle_gui.py): run() *)
(* calls it while the battle is not over.  One call either replaces the    *)
(* first fainted active Pokemon it finds and returns, or submits the first *)
(* move of every active Pokemon to execute_turn.                           *)
(***************************************************************************)
MaxGuiTurns == 3

\* the slots in the order battle_loop looks at them
GuiChecks ==
    IF battle_mode = "single"
    THEN <<<<"player", 0>>, <<"opponent", 0>>>>
    ELSE <<<<"player", 0>>, <<"opponent", 0>>, <<"player", 1>>, <<"opponent", 1>>>>

\* the first Pokemon of the team with current_hp > 0, or -1 (next_index None)
NextIndex(side) ==
    LET standing == {i \in Idx : ~IsFainted(current_hp[side][i])}
    IN  IF standing = {} THEN -1
        ELSE CHOOSE i \in standing : \A j \in standing : i <= j

\* the actions battle_loop submits for a side
GuiActions(side) ==
    [k \in DOMAIN active_pokemon_indices[side] |->
       <<"move", POKEMON[side][active_pokemon_indices[side][k]].moves[1], k - 1>>]

\* A single battle assigns team.active_pokemon_index, an attribute Team does
\* not read: active_pokemon_indices stays as it is.  A double battle assigns
\* active_pokemon_indices[i].
BattleLoop ==
    /\ ~IsBattleOver
    /\ LET found == {k \in DOMAIN GuiChecks :
                       IsFainted(current_hp[GuiChecks[k][1]]
                                   [active_pokemon_indices[GuiChecks[k][1]][GuiChecks[k][2] + 1]])}
       IN  IF found # {}
           THEN LET k == CHOOSE x \in found : \A y \in found : x <= y
                    side == GuiChecks[k][1]
                    i == GuiChecks[k][2]
                    next_index == NextIndex(side)
                IN  /\ active_pokemon_indices' =
                          IF next_index # -1 /\ battle_mode = "double"
                          THEN [active_pokemon_indices EXCEPT ![side][i + 1] = next_index]
                          ELSE active_pokemon_indices
                    /\ last' = [NoHistory EXCEPT
                                  !.log = IF next_index # -1 THEN {"sent out"}
                                          ELSE {"no more"}]
                    /\ probe' = [method |-> "battle_loop", side |-> side,
                                  position |-> i, next_index |-> next_index]
                    /\ UNCHANGED <<battle_mode, current_hp, stat_stages, turn_count, calls>>
           ELSE /\ turn_count < MaxGuiTurns
                /\ LET actions == [side \in Sides |-> GuiActions(side)]
                   IN  \E rnd \in [Movers(actions) -> Draws] :
                          Done(IF battle_mode = "single"
                               THEN ExecuteTurnSingle(current_hp, active_pokemon_indices,
                                                      actions["player"][1],
                                                      actions["opponent"][1], rnd)
                               ELSE ExecuteTurnDouble(current_hp, active_pokemon_indices,
                                                      actions["player"],
                                                      actions["opponent"], rnd),
                               actions)

GuiNext == BattleLoop

GuiSpec == MainInitAnyMode /\ [][GuiNext]_vars

(***************************************************************************)
(* Pokemon.from_data on its own: one call, the base hp of the species and  *)
(* the level drawn from the sets below.                                    *)
(***************************************************************************)
\* base_stats['hp'] of the species
ProbeBaseHp == 35 .. 45
\* the level argument; 50 is its default
ProbeLevels == {1, 10, 25, 33, 50, 51, 67, 75, 99, 100}

\* the hp and current_hp of the Pokemon from_data builds
FromData(base_hp, level) ==
    [level |-> level, hp |-> MaxHp(base_hp, level), current_hp |-> MaxHp(base_hp, level)]

FromDataCall ==
    /\ probe = NoProbe
    /\ \E base_hp \in ProbeBaseHp, level \in ProbeLevels :
          probe' = [method |-> "from_data", base_hp |-> base_hp,
                    pokemon |-> FromData(base_hp, level)]
    /\ UNCHANGED <<battle_mode, current_hp, stat_stages, active_pokemon_indices,
                   turn_count, last, calls>>

DataNext == FromDataCall

DataSpec == CalcInit /\ [][DataNext]_vars

(***************************************************************************)
(* Properties.                                                             *)
(***************************************************************************)
Called == turn_count' = turn_count + 1

MaxHealth(side, i) == POKEMON[side][i].hp

\* C1: an execute_turn call with an illegal action is rejected: it leaves every
\* Pokemon's current health and both teams' active indices as they were.
C1_IllegalTurnChangesNothing ==
    [][(Called /\ last'.illegal) =>
          (current_hp' = current_hp /\
           active_pokemon_indices' = active_pokemon_indices)]_vars

\* C2: no move is ever executed by a Pokemon whose current health is 0.
C2_NoMoveByFainted == ~last.fainted_actor

\* C3: once a team is defeated, a later execute_turn call changes no health, no
\* active index and not the turn counter.
C3_NothingAfterBattleOver ==
    [][IsBattleOver =>
          UNCHANGED <<current_hp, active_pokemon_indices, turn_count>>]_vars

\* C4: while a team still has a standing Pokemon, no move is accepted from a
\* slot whose Pokemon had fainted before the turn: a switch must fill the slot first.
C4_ReplacementBeforeMove == ~last.stale_actor

\* C5: a move whose target was brought to 0 health earlier in the same turn is
\* skipped, and the skip is logged as a "no target" event.
C5_SkipLoggedNoTarget ==
    /\ ~last.struck_killed
    /\ last.skipped_killed => "no target" \in last.log

\* C6: the moves of a turn run in descending order of the speed scaled by the
\* speed stage, equal scaled speeds in submission order.
C6_OrderByScaledSpeed == ~last.misordered

\* C7: every submitted switch takes effect (none is blocked or dropped) before
\* the moves of the turn.
C7_EverySwitchTakesEffect == ~last.dropped_switch

\* C8: when the battle is over get_winner returns a team that is not defeated;
\* when it is not over it returns no winner.
C8_WinnerNotDefeated ==
    IF IsBattleOver
    THEN GetWinner \in Sides /\ ~IsDefeated(current_hp[GetWinner])
    ELSE GetWinner = "none"

\* C9: every Pokemon's current health stays within 0 .. max health.
C9_HealthInRange ==
    \A side \in Sides : \A i \in Idx :
       /\ RLeq(RInt(0), current_hp[side][i])
       /\ RLeq(current_hp[side][i], MaxHealth(side, i))

\* a hit took more than the target had left, and another Pokemon is hurt but standing
C9_Witness ==
    /\ last.overkill
    /\ \E side \in Sides : \E i \in Idx :
          /\ ~IsFainted(current_hp[side][i])
          /\ RLess(current_hp[side][i], MaxHealth(side, i))

\* C10: defeat is monotonic: no step raises a Pokemon's health, a fainted
\* Pokemon stays fainted, a defeated team stays defeated, a battle that is over
\* stays over.
C10_DefeatMonotonic ==
    [][/\ \A side \in Sides : \A i \in Idx :
             /\ RLeq(current_hp'[side][i], current_hp[side][i])
             /\ IsFainted(current_hp[side][i]) => IsFainted(current_hp'[side][i])
       /\ \A side \in Sides :
             IsDefeated(current_hp[side]) => IsDefeated(current_hp'[side])
       /\ IsBattleOver => IsBattleOver']_vars

\* a hit has landed on a Pokemon that had already fainted, in a battle that is over
C10_Witness == last.struck_fainted /\ IsBattleOver /\ turn_count > 1

\* C11: in a double battle the two active indices of a team are distinct,
\* whatever switch_pokemon calls, legal or not, have been made.
C11_ActiveDistinct ==
    battle_mode = "double" =>
       \A side \in Sides :
          /\ Len(active_pokemon_indices[side]) = 2
          /\ active_pokemon_indices[side][1] # active_pokemon_indices[side][2]

\* a switch to the index active in the other slot was asked of a team that has
\* left its initial pair
C11_Witness ==
    /\ battle_mode = "double"
    /\ last.switch # <<>>
    /\ last.switch[2] \in Range(active_pokemon_indices[last.switch[1]])
    /\ ~last.switch[3]
    /\ active_pokemon_indices[last.switch[1]] # InitialActive("double")

\* the target of a switch is out of range, fainted or already active
InvalidSwitchTarget(side, new_index) ==
    \/ new_index \notin Idx
    \/ IsFainted(current_hp[side][new_index])
    \/ new_index \in Range(active_pokemon_indices[side])

C13_OnlyOwnMoves == ~last.foreign_hit

\* C14: a turn in which both sides submit only switches adds exactly 1 to the
\* turn counter, changes no Pokemon's health and executes and logs no move.
C14_SwitchOnlyTurn ==
    [][last'.only_switches =>
          /\ turn_count' = turn_count + 1
          /\ current_hp' = current_hp
          /\ last'.log \subseteq {"switched"}]_vars

\* a double battle turn of switches only that changed an active index
C14_Witness ==
    /\ battle_mode = "double"
    /\ last.only_switches
    /\ turn_count = 1
    /\ active_pokemon_indices["player"] # InitialActive("double")

\* C15: the turn counter starts at 0, never decreases and equals the number of
\* execute_turn calls carried out, each adding exactly 1.
C15_TurnCounter ==
    /\ turn_count = 0
    /\ [][turn_count' >= turn_count /\ turn_count' - turn_count = calls' - calls]_vars
    /\ [](turn_count = calls)

\* several turns have been carried out, the last with an illegal action
C15_Witness == turn_count = MaxTurns /\ calls = MaxTurns /\ last.illegal

\* the stat a stage scales to, in closed form
ScaledStat(raw, stage) ==
    IF stage > 0 THEN Norm(<<raw * (2 + stage), 2>>)
    ELSE IF stage < 0 THEN Norm(<<raw * 2, 2 - stage>>)
    ELSE RInt(raw)

\* the attack and defense a probed calculate_damage call works with
ProbeAttack ==
    IF probe.move.damage_class = "physical"
    THEN ScaledStat(probe.attacker.data.attack, probe.attacker.stat_stages["attack"])
    ELSE IF probe.move.damage_class = "special"
    THEN ScaledStat(probe.attacker.data.special_attack,
                    probe.attacker.stat_stages["special_attack"])
    ELSE RInt(probe.attacker.data.special_attack)

ProbeDefense ==
    IF probe.move.damage_class = "physical"
    THEN ScaledStat(probe.defender.data.defense, probe.defender.stat_stages["defense"])
    ELSE IF probe.move.damage_class = "special"
    THEN ScaledStat(probe.defender.data.special_defense,
                    probe.defender.stat_stages["special_defense"])
    ELSE RInt(probe.defender.data.special_defense)

\* (2 * level / 5 + 2) * power * (attack / defense) / 50 + 2, times the roll
ProbeRolled ==
    LET level == probe.attacker.data.level
        quotient == <<(2 * level + 10) * probe.move.power * ProbeAttack[1] * ProbeDefense[2],
                      5 * 50 * ProbeAttack[2] * ProbeDefense[1]>>
    IN  RMul(RAdd(Norm(quotient), RInt(2)), probe.roll)

ProbeMultipliers ==
    [k \in DOMAIN probe.defender.data.types |->
        TYPES_DATA[probe.move.type][probe.defender.data.types[k]]]

ProbeMultiplier ==
    IF Len(ProbeMultipliers) = 1 THEN ProbeMultipliers[1]
    ELSE RMul(ProbeMultipliers[1], ProbeMultipliers[2])

ProbeExact == RMul(ProbeRolled, ProbeMultiplier)

\* C16: calculate_damage returns 0 for a move of damage class status.
C16_StatusMoveZero ==
    (probe.method = "calculate_damage" /\ probe.move.damage_class = "status")
       => probe.result = 0

\* C17: the damage is a non-negative integer, the product of base damage, roll
\* and type multipliers truncated (not rounded).
C17_Truncated ==
    probe.method = "calculate_damage" =>
       /\ probe.result \in Nat
       /\ probe.result * ProbeExact[2] <= ProbeExact[1]
       /\ ProbeExact[1] < (probe.result + 1) * ProbeExact[2]

\* a product whose fraction is a half or more, which rounding would take up
C17_Witness ==
    /\ probe.method = "calculate_damage"
    /\ probe.result > 0
    /\ 2 * (ProbeExact[1] - probe.result * ProbeExact[2]) >= ProbeExact[2]

\* roll 1.0, type multiplier 1.0, all stages 0, level 50, power 80
ProbePinned ==
    /\ probe.method = "calculate_damage"
    /\ probe.roll = <<1, 1>>
    /\ ProbeMultiplier = <<1, 1>>
    /\ \A key \in StatKeys : /\ probe.attacker.stat_stages[key] = 0
                             /\ probe.defender.stat_stages[key] = 0
    /\ probe.attacker.data.level = 50
    /\ probe.move.power = 80

\* C18: with the roll, the type multiplier, the stages, level 50 and power 80
\* pinned, the damage is int((2*50/5 + 2) * 80 * (attack/defense) / 50 + 2) with
\* attack and defense for a physical move, special_attack and special_defense
\* for a special one.
C18_ClosedForm ==
    /\ (ProbePinned /\ probe.move.damage_class = "physical") =>
          probe.result = (22 * 80 * probe.attacker.data.attack)
                            \div (50 * probe.defender.data.defense) + 2
    /\ (ProbePinned /\ probe.move.damage_class = "special") =>
          probe.result = (22 * 80 * probe.attacker.data.special_attack)
                            \div (50 * probe.defender.data.special_defense) + 2

\* a pinned special move between Pokemon whose special stats differ from the physical
C18_Witness ==
    /\ ProbePinned
    /\ probe.move.damage_class = "special"
    /\ probe.attacker.data.special_attack # probe.attacker.data.attack
    /\ probe.defender.data.special_defense # probe.defender.data.defense

\* C19: against a defender of two types the damage is multiplied by the product
\* of the two chart entries (2 and 2 give 4, a 0 gives damage 0), in either
\* order of the types.
C19_DualTypeProduct ==
    (probe.method = "calculate_damage" /\ Len(probe.defender.data.types) = 2) =>
       LET types == probe.defender.data.types
           m == ProbeMultipliers
           swapped == [probe.defender EXCEPT !.data.types = <<types[2], types[1]>>]
       IN  /\ probe.result = Trunc(RMul(ProbeRolled, RMul(m[1], m[2])))
           /\ probe.result = CalculateDamage(probe.attacker, swapped,
                                             probe.move, probe.roll)
           /\ (m[1] = <<2, 1>> /\ m[2] = <<2, 1>>) =>
                 probe.result = Trunc(RMul(ProbeRolled, RInt(4)))
           /\ (m[1] = <<0, 1>> \/ m[2] = <<0, 1>>) => probe.result = 0

\* a fire move on a grass and bug defender: 2 and 2
C19_Witness ==
    /\ probe.method = "calculate_damage"
    /\ probe.defender.data.types = <<"grass", "bug">>
    /\ probe.move.type = "fire"
    /\ probe.result > 0

\* C20: apply_stat_stages does not decrease as the stage grows from -6 to 6;
\* it returns raw at stage 0, raw*(2+s)/2 at s > 0 and raw*2/(2-s) at s < 0.
C20_StagesMonotone ==
    probe.method = "apply_stat_stages" =>
       /\ probe.result = ScaledStat(probe.stat, probe.stage)
       /\ \A s \in (-MaxStage) .. MaxStage :
             /\ s >= probe.stage =>
                   RLeq(probe.result, ApplyStatStages(RInt(probe.stat), s))
             /\ s <= probe.stage =>
                   RLeq(ApplyStatStages(RInt(probe.stat), s), probe.result)

\* a positive stat scaled at a negative stage
C20_Witness ==
    /\ probe.method = "apply_stat_stages"
    /\ probe.stage < 0
    /\ probe.stat > 0
    /\ RLess(probe.result, RInt(probe.stat))

\* every Pokemon of the side is at health 0
AllAtZero(side) == \A i \in Idx : current_hp[side][i] = RInt(0)

\* C21: is_defeated() is true exactly when all six Pokemon of the team are at
\* health 0, and is_battle_over() exactly when at least one team is defeated.
C21_DefeatedIffAllZero ==
    /\ Cardinality(Idx) = 6
    /\ \A side \in Sides : IsDefeated(current_hp[side]) <=> AllAtZero(side)
    /\ IsBattleOver <=> (\E side \in Sides : AllAtZero(side))

\* play has brought one team to 0 throughout while the other still stands
C21_Witness ==
    /\ turn_count > 0
    /\ \E side \in Sides :
          /\ AllAtZero(side)
          /\ ~AllAtZero(Other(side))
          /\ \E i \in Idx : IsFainted(current_hp[Other(side)][i])
    /\ IsBattleOver

\* the Adversary's team and active indices
Mine == active_pokemon_indices[AdversarySide]
Theirs == active_pokemon_indices[Other(AdversarySide)]

\* teammate i is benched, has not fainted and has a move that is super-effective
\* against a type of one of the opponent's active Pokemon
Qualifies(i) ==
    /\ i \notin Range(Mine)
    /\ ~IsFainted(current_hp[AdversarySide][i])
    /\ \E k \in DOMAIN POKEMON[AdversarySide][i].moves : \E j \in DOMAIN Theirs :
          \E t \in Range(POKEMON[Other(AdversarySide)][Theirs[j]].types) :
             RLess(RInt(1),
                   TYPES_DATA[MOVES_DATA[POKEMON[AdversarySide][i].moves[k]].type][t])

\* the health fraction of the Pokemon in the slot is below 0.3
SlotLow(position) ==
    10 * current_hp[AdversarySide][Mine[position + 1]][1]
          * POKEMON[AdversarySide][Mine[position + 1]].hp[2]
       < 3 * POKEMON[AdversarySide][Mine[position + 1]].hp[1]
            * current_hp[AdversarySide][Mine[position + 1]][2]

Chosen == probe.method = "choose_action"

\* C22: with its active Pokemon at 20% health and a benched teammate that has
\* a super-effective move, choose_action returns a switch to such a teammate.
C22_SwitchToQualifying ==
    (/\ Chosen
     /\ battle_mode = "single"
     /\ current_hp[AdversarySide][Mine[1]]
           = RMul(<<1, 5>>, POKEMON[AdversarySide][Mine[1]].hp)
     /\ \E i \in Idx : Qualifies(i))
       => /\ probe.actions[1][1] = "switch"
          /\ Qualifies(probe.actions[1][2])

\* C23: a switch is returned for a slot only if that slot's Pokemon is below
\* 0.3 of its health or a benched teammate that has not fainted has a
\* super-effective move; when neither holds a move is returned.
C23_SwitchOnlyIfTriggered ==
    Chosen =>
       \A k \in DOMAIN probe.actions :
          probe.actions[k][1] = "switch" =>
             (SlotLow(k - 1) \/ \E i \in Idx : Qualifies(i))

\* C24: every switch returned targets a Pokemon that has not fainted and is not
\* active; when the heuristic triggers and no such Pokemon exists, a move is
\* returned.
C24_SwitchTargetsLegal ==
    Chosen =>
       /\ \A k \in DOMAIN probe.actions :
             probe.actions[k][1] = "switch" =>
                /\ probe.actions[k][2] \in Idx
                /\ ~IsFainted(current_hp[AdversarySide][probe.actions[k][2]])
                /\ probe.actions[k][2] \notin Range(Mine)
       /\ (\A i \in Idx : i \in Range(Mine) \/ IsFainted(current_hp[AdversarySide][i]))
             => \A k \in DOMAIN probe.actions : probe.actions[k][1] = "move"

\* the active Pokemon is low, nobody is left on the bench, and a move came back
C24_Witness ==
    /\ Chosen
    /\ SlotLow(0)
    /\ \A i \in Idx : i \in Range(Mine) \/ IsFainted(current_hp[AdversarySide][i])
    /\ probe.actions[1][1] = "move"

\* power times the product of the type multipliers; a status move scores 0
Score(move, defender_types) ==
    LET m == [j \in DOMAIN defender_types |-> TYPES_DATA[move.type][defender_types[j]]]
        product == IF Len(m) = 1 THEN m[1] ELSE RMul(m[1], m[2])
    IN  IF move.damage_class = "status" THEN RInt(0)
        ELSE RMul(RInt(move.power), product)

\* no move of the Pokemon at roster index actor scores more against the types
\* of the opponent's active Pokemon in slot than the move move_id
BestAgainst(actor, move_id, slot) ==
    LET types == POKEMON[Other(AdversarySide)][Theirs[slot + 1]].types
    IN  \A k \in DOMAIN POKEMON[AdversarySide][actor].moves :
           RLeq(Score(MOVES_DATA[POKEMON[AdversarySide][actor].moves[k]], types),
                Score(MOVES_DATA[move_id], types))

\* C25 as stated, the defender being the Pokemon the returned move targets:
\* no move of the acting Pokemon scores more against its types.
C25_BestAgainstTarget ==
    Chosen =>
       \A k \in DOMAIN probe.actions :
          probe.actions[k][1] = "move" =>
             BestAgainst(Mine[k], probe.actions[k][2], probe.actions[k][3])

\* What _choose_best_move does guarantee (C25 with the defender read as the
\* argument of the call): the move returned is one of the acting Pokemon's moves
\* and none of them has a higher score power * product of type multipliers (status moves
\* score 0) against the defender handed to _choose_best_move, which
\* choose_action takes from the opponent's first active slot whatever slot the
\* move targets; when all score 0 the move is still one of them.
C25_BestMove ==
    /\ probe.method = "_choose_best_move" =>
          /\ probe.result \in DOMAIN probe.moves
          /\ \A j \in DOMAIN probe.moves :
                RLeq(Score(probe.moves[j], probe.defender_types),
                     Score(probe.moves[probe.result], probe.defender_types))
    /\ Chosen =>
          \A k \in DOMAIN probe.actions :
             probe.actions[k][1] = "move" =>
                /\ probe.actions[k][2] \in Range(POKEMON[AdversarySide][Mine[k]].moves)
                /\ BestAgainst(Mine[k], probe.actions[k][2], 0)

\* C26: a choose_action call changes no Pokemon's health or stat stages and no
\* active index.
C26_ChooseActionReadOnly ==
    [][probe'.method = "choose_action" =>
          UNCHANGED <<current_hp, stat_stages, active_pokemon_indices,
                      battle_mode, turn_count>>]_vars

\* a double battle call that returned a switch for slot 0
C26_Witness ==
    /\ Chosen
    /\ battle_mode = "double"
    /\ probe.actions[1][1] = "switch"

\* C30: in a double battle a slot whose own Pokemon is at 0.3 of its health or
\* more, with no benched type advantage, gets a move even when the Pokemon of
\* the other slot is below 0.3.
C30_LowHealthPerSlot ==
    (Chosen /\ battle_mode = "double") =>
       \A k \in DOMAIN probe.actions :
          (~SlotLow(k - 1) /\ ~\E i \in Idx : Qualifies(i))
             => probe.actions[k][1] = "move"

\* C27: Team(pokemon_list, battle_mode) with a list whose length is not 6
\* raises ValueError and builds no team; every team built, and every team of a
\* battle after any switch_pokemon calls, has exactly 6 Pokemon.
C27_TeamOfSix ==
    /\ (probe.method = "Team.__init__" /\ Len(probe.pokemon_list) # 6) =>
          /\ probe.raised = "ValueError"
          /\ probe.team[probe.side] = NoTeam
    /\ \A side \in Sides :
          /\ probe.team[side] # NoTeam => Len(probe.team[side].pokemon) = 6
          /\ battle_mode # "none" => DOMAIN current_hp[side] = 0 .. 5

\* a list of 7 was refused
C27_Witness ==
    /\ probe.method = "Team.__init__"
    /\ Len(probe.pokemon_list) = 7
    /\ probe.raised = "ValueError"

\* C28: Battle(player_team, opponent_team) with teams of different battle modes
\* raises ValueError and builds no battle; in every battle built, both teams
\* and the battle have the same mode.
C28_SameMode ==
    /\ (/\ probe.method = "Battle.__init__"
         /\ probe.team["player"].battle_mode # probe.team["opponent"].battle_mode)
          => (probe.raised = "ValueError" /\ battle_mode = "none")
    /\ battle_mode # "none" =>
          \A side \in Sides :
             /\ probe.team[side].battle_mode = battle_mode
             /\ Len(active_pokemon_indices[side])
                   = IF battle_mode = "single" THEN 1 ELSE 2

\* a single team and a double team were refused
C28_Witness ==
    /\ probe.method = "Battle.__init__"
    /\ probe.team["player"].battle_mode = "single"
    /\ probe.team["opponent"].battle_mode = "double"
    /\ probe.raised = "ValueError"

Executed == probe.method = "execute_move"

\* the defender's health after a hit of the probed call
HitHealth ==
    LET before == probe.before[probe.defender[1]][probe.defender[2]]
        damage == CalculateDamage(PokemonAt(probe.attacker[1], probe.attacker[2]),
                                  PokemonAt(probe.defender[1], probe.defender[2]),
                                  MOVES_DATA[probe.move_id], probe.draw.damage)
    IN  RMax(RInt(0), RSub(before, RInt(damage)))

\* C29: an execute_move call whose accuracy roll exceeds the move's accuracy
\* misses and changes no Pokemon's health; with a roll of at most the accuracy
\* the damage is computed and taken from the defender's health (not below 0),
\* so a move of accuracy 100 never misses.
C29_AccuracyRoll ==
    Executed =>
       /\ probe.draw.accuracy \in 1 .. 100
       /\ probe.draw.accuracy > MOVES_DATA[probe.move_id].accuracy =>
             (current_hp = probe.before /\ "missed" \in last.log)
       /\ probe.draw.accuracy <= MOVES_DATA[probe.move_id].accuracy =>
             /\ current_hp = [probe.before EXCEPT
                                ![probe.defender[1]][probe.defender[2]] = HitHealth]
             /\ "missed" \notin last.log
       /\ MOVES_DATA[probe.move_id].accuracy = 100 => "missed" \notin last.log

\* a roll one above the accuracy of beam missed a standing defender
C29_Witness ==
    /\ Executed
    /\ probe.draw.accuracy = MOVES_DATA[probe.move_id].accuracy + 1
    /\ ~IsFainted(probe.before[probe.defender[1]][probe.defender[2]])
    /\ "missed" \in last.log
    /\ current_hp = probe.before

\* C32: an execute_turn call that starts with neither team defeated does not
\* end with both teams defeated.
C32_NotBothDefeated ==
    [][(/\ Called
        /\ ~IsDefeated(current_hp["player"])
        /\ ~IsDefeated(current_hp["opponent"]))
          => ~(IsDefeated(current_hp'["player"]) /\ IsDefeated(current_hp'["opponent"]))]_vars

\* C36: while the Adversary's team is not defeated, choose_action returns no
\* move for a slot whose active Pokemon has fainted.
C36_NoMoveForFaintedSlot ==
    (Chosen /\ ~IsDefeated(current_hp[AdversarySide])) =>
       \A k \in DOMAIN probe.actions :
          IsFainted(current_hp[AdversarySide][Mine[k]]) => probe.actions[k][1] # "move"

\* C37: in a double battle the two actions of one choose_action call are never
\* two switches to the same roster index.
C37_DistinctSwitchTargets ==
    (Chosen /\ battle_mode = "double") =>
       ~(/\ probe.actions[1][1] = "switch"
         /\ probe.actions[2][1] = "switch"
         /\ probe.actions[1][2] = probe.actions[2][2])

\* C38: a switch_pokemon call that returns True changes one active index of the
\* switching team, to the index asked for, and nothing else: no Pokemon's
\* health or stat stages, no other slot of the team, nothing of the other team.
C38_SwitchFrame ==
    [][(last'.switch # <<>> /\ last'.switch[3]) =>
          /\ current_hp' = current_hp
          /\ stat_stages' = stat_stages
          /\ battle_mode' = battle_mode
          /\ turn_count' = turn_count
          /\ active_pokemon_indices'[Other(last'.switch[1])]
                = active_pokemon_indices[Other(last'.switch[1])]
          /\ \E k \in DOMAIN active_pokemon_indices[last'.switch[1]] :
                /\ active_pokemon_indices[last'.switch[1]][k] # last'.switch[2]
                /\ active_pokemon_indices'[last'.switch[1]]
                      = [active_pokemon_indices[last'.switch[1]]
                           EXCEPT ![k] = last'.switch[2]]]_vars

\* a double battle: a switch has put into the second slot a Pokemon whose
\* speed stage is not 0, next to the Pokemon the team started with in the first
C38_Witness ==
    /\ battle_mode = "double"
    /\ last.switch # <<>>
    /\ last.switch[3]
    /\ active_pokemon_indices[last.switch[1]][1] = 0
    /\ active_pokemon_indices[last.switch[1]][2] = last.switch[2]
    /\ stat_stages[last.switch[1]][last.switch[2]]["speed"] # 0

\* C31: the max health of a Pokemon built by from_data is the integer
\* floor(base_hp * 2 * level / 100) + level + 10, whatever the base hp and the
\* level, and its current health starts equal to it.
C31_MaxHealthFloored ==
    probe.method = "from_data" =>
       /\ probe.pokemon.hp
             = RInt(((probe.base_hp * 2 * probe.pokemon.level) \div 100)
                    + probe.pokemon.level + 10)
       /\ probe.pokemon.current_hp = probe.pokemon.hp

\* the battle is not over and no pass of the loop of main() can change any
\* Pokemon's health or any active index
Stalled ==
    /\ ~IsBattleOver
    /\ \A opponent_action \in ChooseSingleAction(current_hp, active_pokemon_indices,
                                                  AdversarySide) :
          \A r \in LoopResults(opponent_action) :
             r.hp = current_hp /\ r.active = active_pokemon_indices

\* C33: the loop of main() never comes to a state where the battle is not over
\* and no further turn changes any health, so that is_battle_over() is
\* eventually reached.
C33_LoopNeverStalls == ~Stalled

\* a battle_loop call has just sent out a replacement
SentOut == "sent out" \in last'.log

\* C34: in a single battle, the battle_loop step that finds a side's active
\* Pokemon fainted while the side has a Pokemon left makes a Pokemon that has
\* not fainted that side's active Pokemon.
C34_ReplacementBecomesActive ==
    [][(SentOut /\ battle_mode = "single") =>
          /\ active_pokemon_indices'[probe'.side] # active_pokemon_indices[probe'.side]
          /\ ~IsFainted(current_hp'[probe'.side][active_pokemon_indices'[probe'.side][1]])]_vars

\* C35: in a double battle, after battle_loop has replaced a fainted active
\* Pokemon the slot holds a Pokemon that has not fainted and was not already
\* active, and the team's two active indices are distinct.
C35_ReplacementNotActive ==
    [][(SentOut /\ battle_mode = "double") =>
          LET slot == active_pokemon_indices'[probe'.side][probe'.position + 1]
          IN  /\ ~IsFainted(current_hp'[probe'.side][slot])
              /\ slot \notin Range(active_pokemon_indices[probe'.side])
              /\ active_pokemon_indices'[probe'.side][1]
                    # active_pokemon_indices'[probe'.side][2]]_vars

=============================================================================
